---------------------------- MODULE Spec2Model ----------------------------
(***************************************************************************)
(* Model of the duplicate-detection pipeline of deduplicatorV4:            *)
(*   backend/services/pipeline_orchestrator.py  (process_document)         *)
(*   backend/tasks/lsh_tasks.py, similarity/hashing.py   (LSH snapshot)    *)
(*   backend/tasks/vectorizer_tasks.py, similarity/tfidf.py (vectorizer)   *)
(*   utils/page_tracker.py, backend/api/page.py    (pages, page review)    *)
(*   utils/database.py                  (tables, upsert, unique indexes)   *)
(*                                                                         *)
(* Texts are sequences of words.  Word 0 is a word the TF-IDF analyzer     *)
(* drops (an English stop word or a hyphen-only word); words 1..NTerms are *)
(* indexable terms; Gap is an extra blank between two words (pdf_reader    *)
(* collapses whitespace before it strips punctuation, so "a , b" comes out *)
(* as "a  b").  A PDF is the sequence of its page texts as pdf_reader      *)
(* returns them: lowercased, without punctuation, trimmed; the empty       *)
(* sequence is a page with no text.                                        *)
(*                                                                         *)
(* TF-IDF vectors are term-count vectors over the sorted vocabulary        *)
(* (IDF weights and bigrams are abstracted away; cosine is scale free).    *)
(* Every vector carries the version of the vectorizer that produced it;    *)
(* the program never reads that tag.                                       *)
(***************************************************************************)
EXTENDS Integers, Sequences, FiniteSets, TLC

\* ------------------------------------------------------------ bounds
NDocs == 3
NProcs == 2
NTerms == 2
MaxRefits == 2
MaxReviews == 1
MaxClusterings == 2
MaxSearchRows == 2
MaxPages == 4
MaxTextLen == 3
NormCalls == 2
NormRepeats == 2

\* ------------------------------------------------- program constants
\* settings.DOC_SIMILARITY_THRESHOLD = 0.85, as a percentage
DocSimilarityThresholdPct == 85
\* TfidfVectorizer(min_df=2, max_df=0.95)
MinDf == 2
MaxDfPct == 95
\* get_minhash builds 3-word shingles
ShingleSize == 3
\* settings.LSH_JACCARD_THRESHOLD = 0.8, as a percentage
JaccardThresholdPct == 80
\* @retry(stop=stop_after_attempt(3)) on extract_text_from_pdf
StopAfterAttempt == 3
\* settings.CLUSTER_THRESHOLD = 0.75, as a percentage
ClusterThresholdPct == 75
\* settings.MIN_CLUSTER_SIZE = 2
MinClusterSize == 2
\* max_indicators = 5 in measure_medical_confidence
MaxIndicators == 5
\* text_snippet = text[:300]: the excerpt length, scaled to words
SnippetLen == 2

DocIds == 1..NDocs
Procs == 1..NProcs
Terms == 1..NTerms
Words == 0..NTerms
Gap == -1

NoDoc == 0
NoHash == << -1 >>
NoSim == -1
NoPage == 0
\* None for a cluster_id
NoCluster == ""

\* ------------------------------------------------------ sequences
RECURSIVE SeqSum(_)
SeqSum(s) == IF s = << >> THEN 0 ELSE Head(s) + SeqSum(Tail(s))

RECURSIVE Flatten(_)
Flatten(ss) == IF ss = << >> THEN << >> ELSE Head(ss) \o Flatten(Tail(ss))

Range(s) == { s[i] : i \in 1..Len(s) }

Count(s, x) == Cardinality({ i \in 1..Len(s) : s[i] = x })

RECURSIVE SortedSeq(_)
SortedSeq(S) ==
    IF S = {} THEN << >>
    ELSE LET m == CHOOSE x \in S : \A y \in S : x <= y
         IN  << m >> \o SortedSeq(S \ {m})

Prefix(s, n) == SubSeq(s, 1, IF Len(s) < n THEN Len(s) ELSE n)

\* ------------------------------------------------------ extraction
\* extract_pages_from_pdf: one text per page, "" kept for an unreadable page
extract_pages_from_pdf(pdf) == pdf

\* extract_text_from_pdf: the non-empty page texts joined with " "
extract_text_from_pdf(pdf) ==
    Flatten([i \in 1..Len(pdf) |-> pdf[i]])

\* A file fitz.open cannot read
Unreadable == << << -1 >> >>

\* The body of extract_text_from_pdf raises
ExtractRaises(pdf) == pdf = Unreadable

\* @retry(stop=stop_after_attempt(3), wait=wait_fixed(2)): the body is run
\* again only after it raised; attempt n is under way
RECURSIVE ExtractAttempts(_, _)
ExtractAttempts(pdf, n) ==
    IF ~ExtractRaises(pdf) \/ n >= StopAfterAttempt THEN n
    ELSE ExtractAttempts(pdf, n + 1)

IsWord(x) == x # Gap

\* str.split(): the words of a text
Split(text) == SelectSeq(text, IsWord)

\* str.strip(): leading and trailing blanks removed
RECURSIVE LStrip(_)
LStrip(text) ==
    IF text # << >> /\ Head(text) = Gap THEN LStrip(Tail(text)) ELSE text

RECURSIVE RStrip(_)
RStrip(text) ==
    IF text # << >> /\ text[Len(text)] = Gap
    THEN RStrip(SubSeq(text, 1, Len(text) - 1)) ELSE text

Strip(text) == RStrip(LStrip(text))

\* ------------------------------------------------------ fingerprints
\* A text is ' '.join of its tokens: a word (0..NTerms), a word in capitals
\* (Caps + word), a punctuation mark that is not a hyphen (Punct), or the
\* empty token (Gap), which puts two blanks next to each other.
Punct == -2
Caps == 10

\* text.lower()
Lower(text) ==
    [i \in 1..Len(text) |-> IF text[i] >= Caps THEN text[i] - Caps ELSE text[i]]

\* re.sub(r'\s+', ' ', text): every run of blanks becomes one blank; a blank
\* at the start or at the end stays
CollapseWhitespace(text) ==
    LET words == Split(text)
        lead == IF Head(text) = Gap THEN << Gap >> ELSE << >>
        trail == IF text[Len(text)] = Gap THEN << Gap >> ELSE << >>
    IN  IF text = << >> THEN << >>
        ELSE IF words = << >> THEN Prefix(text, 2)
        ELSE lead \o words \o trail

\* re.sub(r'[^\w\s-]', '', text): the mark goes, the blanks around it stay
RemovePunctuation(text) ==
    [i \in 1..Len(text) |-> IF text[i] = Punct THEN Gap ELSE text[i]]

\* normalize_for_hash: lower(), blank runs collapsed, punctuation removed,
\* strip(), in this order
normalize_for_hash(text) ==
    IF text = << >> THEN << >>
    ELSE Strip(RemovePunctuation(CollapseWhitespace(Lower(text))))

\* compute_document_hash: None when no text, else SHA-256 of the normal form
\* (SHA-256 is taken to be injective: the hash is the normal form itself).
compute_document_hash(pdf) ==
    LET text == extract_text_from_pdf(pdf)
    IN  IF text = << >> THEN NoHash ELSE normalize_for_hash(text)

\* hash_text: SHA-256 of text.strip(), with no other normalisation
hash_text(text) == Strip(text)

\* get_minhash: the MinHash of the set of 3-word shingles.  The MinHash of
\* a shingle set is determined by the set; equal sets give equal MinHashes,
\* and no shingle at all gives the initial (all-maximal) hash values.
get_minhash(text) ==
    LET words == Split(text)
    IN  { SubSeq(words, i, i + ShingleSize - 1) :
            i \in 1..(Len(words) - (ShingleSize - 1)) }

\* The pipeline persists ''.join(format(x,'02x') ...) of the raw hash values:
\* a hexadecimal string, not datasketch's serialised form.
SigHex(mh) == [fmt |-> "hex", val |-> mh]
NoSig == [fmt |-> "none", val |-> {}]

\* MinHash.deserialize(bytes): defined on the library's serialised form only.
CanDeserialize(sig) == sig.fmt = "serialized"

\* Estimated Jaccard similarity of two MinHashes, as a test against the
\* index threshold.  Two MinHashes without shingles have equal hash values.
JaccardAtLeast(a, b, pct) ==
    IF a = b THEN TRUE
    ELSE 100 * Cardinality(a \cap b) >= pct * Cardinality(a \cup b)

\* query_lsh_index: the ids whose signature collides with the query's
query_lsh_index(index, mh) ==
    { e.doc_id : e \in { x \in index : JaccardAtLeast(x.mh, mh, JaccardThresholdPct) } }

\* ------------------------------------------------------ TF-IDF
\* A vectorizer: ver = -1 is "no object" (VECTORIZER is None), ver = 0 an
\* unfitted TfidfVectorizer, ver >= 1 a fitted one with its vocabulary.
NoVectorizer == [ver |-> -1, vocab |-> {}]
UnfittedVectorizer == [ver |-> 0, vocab |-> {}]

\* hasattr(v, 'vocabulary_') and v.vocabulary_
IsFitted(vz) == vz.vocab # {}

\* None for a vector (ver = 0); a stored or computed vector has ver >= 1
NoVec == [ver |-> 0, v |-> << >>]

IsTerm(x) == x > 0

\* The analyzer of TfidfVectorizer(stop_words='english') on preprocessed
\* text: the words that are not dropped.
Tokens(text) == SelectSeq(Split(text), IsTerm)

\* preprocess_text(...).strip() is empty
PreprocessedEmpty(text) == Split(text) = << >>

\* vectorizer.transform([text]).toarray()[0]: one count per vocabulary term,
\* in the (sorted) order of the vocabulary
Transform(vz, text) ==
    LET voc == SortedSeq(vz.vocab)
        toks == Tokens(text)
    IN  [ver |-> vz.ver, v |-> [i \in 1..Len(voc) |-> Count(toks, voc[i])]]

\* tfidf_vectorize, given the vectorizer _load_vectorizer returned
tfidf_vectorize(vz, text) ==
    IF ~IsFitted(vz) THEN NoVec
    ELSE IF PreprocessedEmpty(text) THEN NoVec
    ELSE Transform(vz, text)

\* Document frequency of token t in a corpus (a sequence of texts)
Df(texts, t) == Cardinality({ i \in 1..Len(texts) : t \in Range(Tokens(texts[i])) })

\* The vocabulary TfidfVectorizer(max_df=0.95, min_df=2).fit keeps
FitVocabulary(texts) ==
    LET all == UNION { Range(Tokens(texts[i])) : i \in 1..Len(texts) }
    IN  { t \in all : /\ Df(texts, t) >= MinDf
                      /\ 100 * Df(texts, t) <= MaxDfPct * Len(texts) }

\* A fit that accepts any corpus
FitNeverRaises(texts) == FALSE

\* new_vectorizer.fit raises ValueError when no term is left (an empty
\* vocabulary, max_df below min_df, or everything pruned)
FitRaises(texts) == FitVocabulary(texts) = {}

Dot(a, b) == SeqSum([i \in 1..Len(a) |-> a[i] * b[i]])

\* Integer square root, for the reported similarity
ISqrt(n) == CHOOSE r \in 0..100 : r * r <= n /\ (r + 1) * (r + 1) > n

\* cosine similarity as a percentage (the source rounds to 4 decimals)
SimPct(q, d) == ISqrt((10000 * Dot(q, d) * Dot(q, d)) \div (Dot(q, q) * Dot(d, d)))

NoMatch == [matched_doc |-> NoDoc, similarity |-> NoSim]

\* The loop of tfidf_search skips this stored vector
SearchSkips(q, d) ==
    \/ Len(d) = 0
    \/ Dot(d, d) = 0
    \/ Len(q) # Len(d)

\* The scan of tfidf_search: best is [doc, vec], doc = NoDoc before the
\* first candidate (best_sim = -1.0); a later row replaces the best only
\* when its similarity is strictly greater.
RECURSIVE SearchScan(_, _, _)
SearchScan(rows, q, best) ==
    IF rows = << >> THEN best
    ELSE LET r == Head(rows)
             better ==
                 \/ best.doc = NoDoc
                 \/ Dot(q, r.vec.v) * Dot(q, r.vec.v) * Dot(best.v, best.v)
                      > Dot(q, best.v) * Dot(q, best.v) * Dot(r.vec.v, r.vec.v)
         IN  IF SearchSkips(q, r.vec.v) THEN SearchScan(Tail(rows), q, best)
             ELSE IF better
                  THEN SearchScan(Tail(rows), q, [doc |-> r.document_id, v |-> r.vec.v])
                  ELSE SearchScan(Tail(rows), q, best)

\* A comparison that leaves the threshold itself out: best_sim > threshold
AboveThreshold(q, d, pct) ==
    10000 * Dot(q, d) * Dot(q, d) > pct * pct * Dot(q, q) * Dot(d, d)

\* best_sim >= threshold, exactly
AtLeastThreshold(q, d, pct) ==
    10000 * Dot(q, d) * Dot(q, d) >= pct * pct * Dot(q, q) * Dot(d, d)

\* tfidf_search(query_vector, threshold) over the rows of document_vectors
tfidf_search(rows, qv, pct) ==
    IF qv.ver = 0 \/ Len(qv.v) = 0 THEN NoMatch
    ELSE IF rows = << >> THEN NoMatch
    ELSE IF Dot(qv.v, qv.v) = 0 THEN NoMatch
    ELSE LET best == SearchScan(rows, qv.v, [doc |-> NoDoc, v |-> << >>])
         IN  IF best.doc # NoDoc /\ AtLeastThreshold(qv.v, best.v, pct)
             THEN [matched_doc |-> best.doc, similarity |-> SimPct(qv.v, best.v)]
             ELSE NoMatch

\* get_document_vector / insert_document_vector on the document_vectors table
HasVectorRow(rows, d) == \E i \in 1..Len(rows) : rows[i].document_id = d

get_document_vector(rows, d) ==
    IF HasVectorRow(rows, d)
    THEN (CHOOSE r \in Range(rows) : r.document_id = d).vec
    ELSE NoVec

insert_document_vector(rows, d, vec) ==
    IF HasVectorRow(rows, d)
    THEN [i \in 1..Len(rows) |->
            IF rows[i].document_id = d THEN [rows[i] EXCEPT !.vec = vec] ELSE rows[i]]
    ELSE Append(rows, [document_id |-> d, vec |-> vec])

\* ------------------------------------------------------ inputs
\* The PDFs a document may be: one page with one term; the same page twice;
\* one three-word page; a page without text; a page of dropped words only.
Catalogue ==
    { << <<1>> >>,
      << <<1>>, <<1>> >>,
      << <<1, 2, 1>> >>,
      << << >> >>,
      << <<0>> >> }

\* The statuses a reviewer sets on a page
ReviewStatuses == { "unique", "duplicate" }

VARIABLES
    pdf,               \* pdf[d]: the file uploaded as document d
    meta,              \* table document_metadata, by doc_id
    result,            \* what process_document returned for d
    pages,             \* table pages, in id order
    page_duplicates,   \* table page_duplicates: <<source_page_id, duplicate_page_id>>
    decisions,         \* table page_review_decisions, in id order
    document_vectors,  \* table document_vectors, in id order
    vectorizerFile,    \* storage/metadata/vectorizer.pkl
    VECTORIZER,        \* the module global of similarity.tfidf, per worker process
    lshFile,           \* storage/metadata/lsh_index.pkl
    task,              \* what each worker process is running, and its locals
    fits,              \* vectorizers fitted so far (the version tag)
    reviews,           \* page status requests served
    clusterings,       \* what the clustering runs that returned read, returned and left stored
    search,            \* the last direct call of tfidf_search: arguments and return value
    lshTmp,            \* storage/metadata/lsh_index.pkl.tmp
    norm               \* direct calls of normalize_for_hash: norm[k] is an argument, then each return value

vars == << pdf, meta, result, pages, page_duplicates, decisions, document_vectors,
           vectorizerFile, VECTORIZER, lshFile, task, fits, reviews, clusterings, search, lshTmp, norm >>

\* ------------------------------------------------------ document_metadata
NoRow ==
    [exists |-> FALSE, status |-> "", content_hash |-> NoHash,
     minhash_signature |-> NoSig, matched_doc_id |-> NoDoc,
     similarity_score |-> NoSim, cluster_id |-> NoCluster, page_count |-> 0]

\* The unique index on content_hash rejects the commit
UniqueViolation(m, d, upd) ==
    /\ "content_hash" \in DOMAIN upd
    /\ upd.content_hash # NoHash
    /\ \E e \in DocIds \ {d} : m[e].exists /\ m[e].content_hash = upd.content_hash

\* upsert_document_metadata, when the commit succeeds
upsert_document_metadata(m, d, upd) ==
    [m EXCEPT ![d] =
        [f \in DOMAIN NoRow |->
            IF f = "exists" THEN TRUE
            ELSE IF f \in DOMAIN upd THEN upd[f] ELSE m[d][f]]]

get_document_by_hash(m, h) ==
    IF h = NoHash THEN NoDoc
    ELSE IF \E e \in DocIds : m[e].exists /\ m[e].content_hash = h
         THEN CHOOSE e \in DocIds : m[e].exists /\ m[e].content_hash = h
         ELSE NoDoc

NoResult == [status |-> "", final_status |-> "", matched_doc_id |-> NoDoc]

\* The dictionary process_document returns
Returned(st, final, matched) ==
    [status |-> st, final_status |-> final, matched_doc_id |-> matched]

\* ------------------------------------------------------ pages
\* get_page_by_hash: the first-seen page with this hash
get_page_by_hash(pgs, h) ==
    IF \E i \in 1..Len(pgs) : pgs[i].page_hash = h
    THEN CHOOSE i \in 1..Len(pgs) :
            /\ pgs[i].page_hash = h
            /\ \A j \in 1..(i - 1) : pgs[j].page_hash # h
    ELSE NoPage

\* The unique index on (document_id, page_number) rejects the commit
PageKeyTaken(pgs, d, n) ==
    \E i \in 1..Len(pgs) : pgs[i].document_id = d /\ pgs[i].page_number = n

\* create_page, when the commit succeeds
create_page(pgs, d, n, h, snippet, confidence) ==
    Append(pgs, [id |-> Len(pgs) + 1, document_id |-> d, page_number |-> n,
                 page_hash |-> h, text_snippet |-> snippet,
                 medical_confidence |-> confidence, status |-> "pending"])

\* text[:300].replace("\n", " ").strip()
Snippet(text) == Strip(Prefix(text, SnippetLen))

\* measure_medical_confidence: indicators / max_indicators, as a percentage.
\* Term 2 stands for a measurement (a number and a unit), the one indicator
\* the words of the model carry.
measure_medical_confidence(text) ==
    IF text = << >> THEN 0
    ELSE (100 * Cardinality({ w \in Range(text) : w = 2 })) \div MaxIndicators

\* [measure_medical_confidence(pt) for pt in page_texts if pt]
MedicalConfidences(page_texts) ==
    LET scored == SelectSeq(page_texts, LAMBDA pt : pt # << >>)
    IN  [k \in 1..Len(scored) |-> measure_medical_confidence(scored[k])]

\* The head of process_document_pages: an empty list becomes zeros; a list
\* of another length than page_texts is padded with zeros and cut
AdjustConfidences(confidences, n) ==
    Prefix(confidences \o [k \in 1..n |-> 0], n)

\* process_document_pages, from page i on: db is <<pages, page_duplicates,
\* raised>>; create_page re-raises the error of a rejected commit, and the
\* pages committed before it stay
RECURSIVE process_document_pages(_, _, _, _, _)
process_document_pages(db, d, page_texts, confidences, i) ==
    IF i > Len(page_texts) THEN db
    ELSE LET text == page_texts[i]
             h == hash_text(text)
             existing == get_page_by_hash(db[1], h)
             created == create_page(db[1], d, i, h, Snippet(text), confidences[i])
         IN  IF Strip(text) = << >>
             THEN process_document_pages(db, d, page_texts, confidences, i + 1)
             ELSE IF PageKeyTaken(db[1], d, i)
                  THEN << db[1], db[2], TRUE >>
             ELSE IF existing # NoPage
                  THEN process_document_pages(
                          << created, db[2] \cup { << existing, Len(created) >> }, FALSE >>,
                          d, page_texts, confidences, i + 1)
                  ELSE process_document_pages(<< created, db[2], FALSE >>,
                                              d, page_texts, confidences, i + 1)

\* get_duplicates_for_page: the pages at the far end of the edges from a source
get_duplicates_for_page(dups, src) == { e[2] : e \in { x \in dups : x[1] = src } }

\* ------------------------------------------------------ worker processes
\* The locals of a task; work collects what stages 2 and 3 of a run have done
Idle ==
    [kind |-> "idle", pc |-> "", doc |-> NoDoc, match |-> NoDoc, cands |-> {},
     vec |-> NoVec, texts |-> << >>, ids |-> << >>, i |-> 0, before |-> << >>,
     rows |-> {}, index |-> {}, after |-> {}, fd |-> "closed", work |-> {},
     existing |-> NoPage, skip |-> FALSE, vectorizer |-> NoVectorizer]

\* vectorizer.pkl between open(VECTORIZER_FILE, "wb") and the end of
\* pickle.dump: the file is there, pickle.load on it raises
PartialVectorizer == [ver |-> -2, vocab |-> {}]

\* _load_vectorizer: the cached object, else the file's, else (no file, or a
\* file that does not load) a new unfitted one
LoadVectorizer(cached, file) ==
    IF cached # NoVectorizer THEN cached
    ELSE IF file # NoVectorizer /\ file # PartialVectorizer THEN file
    ELSE UnfittedVectorizer

\* A file: whole is FALSE while its pickle is not written to the end
NoFile == [exists |-> FALSE, index |-> {}, whole |-> FALSE]

\* open(path, 'wb'): the file is there and empty
Truncated == [exists |-> TRUE, index |-> {}, whole |-> FALSE]

\* pickle.dump(lsh_index, f) written to the end
Pickled(index) == [exists |-> TRUE, index |-> index, whole |-> TRUE]

\* get_lsh_index_instance: the pickled index; an empty one when there is no
\* file or pickle.load raises
get_lsh_index_instance(file) == IF file.exists /\ file.whole THEN file.index ELSE {}

\* No call of tfidf_search yet
NoSearch == [query |-> NoVec, threshold |-> 0, out |-> NoMatch, called |-> FALSE]

\* Empty tables, no files, idle workers
InitDatabase ==
    /\ meta = [d \in DocIds |-> NoRow]
    /\ result = [d \in DocIds |-> NoResult]
    /\ pages = << >>
    /\ page_duplicates = {}
    /\ decisions = << >>
    /\ document_vectors = << >>
    /\ vectorizerFile = NoVectorizer
    /\ VECTORIZER = [p \in Procs |-> NoVectorizer]
    /\ lshFile = NoFile
    /\ task = [p \in Procs |-> Idle]
    /\ fits = 0
    /\ reviews = 0
    /\ clusterings = << >>
    /\ search = NoSearch
    /\ lshTmp = NoFile

\* No direct call of normalize_for_hash is under way
InitTables ==
    /\ InitDatabase
    /\ norm = << >>

Init ==
    /\ pdf \in [DocIds -> Catalogue]
    /\ InitTables

\* ------------------------------------------------------ process_document
\* An except branch that also takes back what the completed stages stored
CriticalRowRollback(m, d) ==
    upsert_document_metadata(m, d, [status |-> "error_pipeline_critical",
                                    content_hash |-> NoHash, minhash_signature |-> NoSig])

\* The except branch of process_document: the status it persists and returns
CriticalRow(m, d) == upsert_document_metadata(m, d, [status |-> "error_pipeline_critical"])

CriticalResult == Returned("error", "error_pipeline_critical", NoDoc)

\* A worker picks up process_document_task for a new document and writes the
\* initial metadata row.  New documents arrive in id order.
PStart(p, d) ==
    /\ task[p].kind = "idle"
    /\ ~meta[d].exists
    /\ \A e \in DocIds : e < d => meta[e].exists
    /\ meta' = upsert_document_metadata(meta, d, [status |-> "processing_extraction"])
    /\ task' = [task EXCEPT ![p] =
                  [Idle EXCEPT !.kind = "doc", !.pc = "extract", !.doc = d,
                               !.after = { e \in DocIds : result[e] # NoResult }]]
    /\ UNCHANGED << pdf, result, pages, page_duplicates, decisions, document_vectors,
                    vectorizerFile, VECTORIZER, lshFile, fits, reviews, clusterings, search, lshTmp, norm >>

\* The pages of a file that have text
WithText(f) == SelectSeq(f, LAMBDA pt : pt # << >>)

\* process_document is called again for a doc_id that has a row, with the
\* file now uploaded under that id: the initial upsert finds the row and sets
\* its status; every other column keeps what the earlier run left.
PRerun(p, d, f) ==
    /\ task[p].kind = "idle"
    /\ meta[d].exists
    /\ \A q \in Procs : task[q].doc # d
    /\ Len(pages) + Len(WithText(f)) <= MaxPages
    /\ pdf' = [pdf EXCEPT ![d] = f]
    /\ meta' = upsert_document_metadata(meta, d, [status |-> "processing_extraction"])
    /\ task' = [task EXCEPT ![p] =
                  [Idle EXCEPT !.kind = "doc", !.pc = "extract", !.doc = d,
                               !.after = { e \in DocIds : result[e] # NoResult }]]
    /\ UNCHANGED << result, pages, page_duplicates, decisions, document_vectors,
                    vectorizerFile, VECTORIZER, lshFile, fits, reviews, clusterings, search, lshTmp, norm >>

\* update_page_hash_map(doc_id=..., page_texts=page_texts,
\* medical_confidences=medical_confidences, ...) over the tables as they are
PagesRegistered(d, page_texts) ==
    process_document_pages(<< pages, page_duplicates, FALSE >>, d, page_texts,
        AdjustConfidences(MedicalConfidences(page_texts), Len(page_texts)), 1)

\* A stage 0 that goes on to the hash stage whatever the text
PExtractNoCheck(p) ==
    /\ task[p].kind = "doc" /\ task[p].pc = "extract"
    /\ LET d == task[p].doc
           page_texts == extract_pages_from_pdf(pdf[d])
           db == PagesRegistered(d, page_texts)
       IN  /\ pages' = db[1]
           /\ page_duplicates' = db[2]
           /\ meta' = upsert_document_metadata(meta, d,
                         [status |-> "processing_hash_check", page_count |-> Len(page_texts)])
           /\ task' = [task EXCEPT ![p].pc = "hash_lookup"]
           /\ UNCHANGED result
    /\ UNCHANGED << pdf, decisions, document_vectors, vectorizerFile, VECTORIZER,
                    lshFile, fits, reviews, clusterings, search, lshTmp, norm >>

\* Stage 0: text extraction and page registration.  An extraction that
\* raised at every attempt ends the run in the except branch.
PExtract(p) ==
    /\ task[p].kind = "doc" /\ task[p].pc = "extract"
    /\ LET d == task[p].doc
           full_text == extract_text_from_pdf(pdf[d])
           page_texts == extract_pages_from_pdf(pdf[d])
           db == PagesRegistered(d, page_texts)
       IN  IF ExtractRaises(pdf[d])
           THEN /\ meta' = CriticalRow(meta, d)
                /\ result' = [result EXCEPT ![d] = CriticalResult]
                /\ task' = [task EXCEPT ![p] = Idle]
                /\ UNCHANGED << pages, page_duplicates >>
           ELSE IF full_text = << >>
           THEN /\ meta' = upsert_document_metadata(meta, d, [status |-> "error_text_extraction"])
                /\ result' = [result EXCEPT ![d] = Returned("error", "error_text_extraction", NoDoc)]
                /\ task' = [task EXCEPT ![p] = Idle]
                /\ UNCHANGED << pages, page_duplicates >>
           ELSE IF db[3]
           THEN /\ pages' = db[1]
                /\ page_duplicates' = db[2]
                /\ meta' = CriticalRow(meta, d)
                /\ result' = [result EXCEPT ![d] = CriticalResult]
                /\ task' = [task EXCEPT ![p] = Idle]
           ELSE /\ pages' = db[1]
                /\ page_duplicates' = db[2]
                /\ meta' = upsert_document_metadata(meta, d,
                              [status |-> "processing_hash_check", page_count |-> Len(page_texts)])
                /\ task' = [task EXCEPT ![p].pc = "hash_lookup"]
                /\ UNCHANGED result
    /\ UNCHANGED << pdf, decisions, document_vectors, vectorizerFile, VECTORIZER,
                    lshFile, fits, reviews, clusterings, search, lshTmp, norm >>

\* Stage 0, step by step.  process_document_pages commits once per page:
\* the lookup of the page hash, then the page, then the edge.
\* The extraction, up to the call that registers the pages
PExtractText(p) ==
    /\ task[p].kind = "doc" /\ task[p].pc = "extract"
    /\ LET d == task[p].doc
           full_text == extract_text_from_pdf(pdf[d])
       IN  IF ExtractRaises(pdf[d])
           THEN /\ meta' = CriticalRow(meta, d)
                /\ result' = [result EXCEPT ![d] = CriticalResult]
                /\ task' = [task EXCEPT ![p] = Idle]
           ELSE IF full_text = << >>
           THEN /\ meta' = upsert_document_metadata(meta, d, [status |-> "error_text_extraction"])
                /\ result' = [result EXCEPT ![d] = Returned("error", "error_text_extraction", NoDoc)]
                /\ task' = [task EXCEPT ![p] = Idle]
           ELSE /\ task' = [task EXCEPT ![p].pc = "page_lookup", ![p].i = 1,
                                        ![p].texts = extract_pages_from_pdf(pdf[d])]
                /\ UNCHANGED << meta, result >>
    /\ UNCHANGED << pdf, pages, page_duplicates, decisions, document_vectors, vectorizerFile,
                    VECTORIZER, lshFile, fits, reviews, clusterings, search, lshTmp, norm >>

\* The loop moves on to the next page with text: i is that page, or past the end
RECURSIVE NextWithText(_, _)
NextWithText(page_texts, i) ==
    IF i > Len(page_texts) \/ Strip(page_texts[i]) # << >> THEN i
    ELSE NextWithText(page_texts, i + 1)

\* get_page_by_hash for the next page with text; after the last page the
\* call returns and stage 0 writes its status
PPageLookup(p) ==
    /\ task[p].kind = "doc" /\ task[p].pc = "page_lookup"
    /\ LET d == task[p].doc
           page_texts == task[p].texts
           i == NextWithText(page_texts, task[p].i)
       IN  IF i > Len(page_texts)
           THEN /\ meta' = upsert_document_metadata(meta, d,
                              [status |-> "processing_hash_check", page_count |-> Len(page_texts)])
                /\ task' = [task EXCEPT ![p].pc = "hash_lookup", ![p].i = 0,
                                        ![p].texts = << >>]
           ELSE /\ task' = [task EXCEPT
                              ![p].pc = "page_create", ![p].i = i,
                              ![p].existing = get_page_by_hash(pages, hash_text(page_texts[i]))]
                /\ UNCHANGED meta
    /\ UNCHANGED << pdf, result, pages, page_duplicates, decisions, document_vectors,
                    vectorizerFile, VECTORIZER, lshFile, fits, reviews, clusterings, search, lshTmp, norm >>

\* create_page, and create_page_duplicate when the lookup had found a page
PPageCreate(p) ==
    /\ task[p].kind = "doc" /\ task[p].pc = "page_create"
    /\ LET d == task[p].doc
           page_texts == task[p].texts
           i == task[p].i
           confidences == AdjustConfidences(MedicalConfidences(page_texts), Len(page_texts))
           created == create_page(pages, d, i, hash_text(page_texts[i]),
                                  Snippet(page_texts[i]), confidences[i])
       IN  IF PageKeyTaken(pages, d, i)
           THEN /\ meta' = CriticalRow(meta, d)
                /\ result' = [result EXCEPT ![d] = CriticalResult]
                /\ task' = [task EXCEPT ![p] = Idle]
                /\ UNCHANGED << pages, page_duplicates >>
           ELSE /\ pages' = created
                /\ page_duplicates' =
                      IF task[p].existing # NoPage
                      THEN page_duplicates \cup { << task[p].existing, Len(created) >> }
                      ELSE page_duplicates
                /\ task' = [task EXCEPT ![p].pc = "page_lookup", ![p].i = i + 1,
                                        ![p].existing = NoPage]
                /\ UNCHANGED << meta, result >>
    /\ UNCHANGED << pdf, decisions, document_vectors, vectorizerFile, VECTORIZER,
                    lshFile, fits, reviews, clusterings, search, lshTmp, norm >>

\* Stage 1, first half: compute the hash and look it up
PHashLookup(p) ==
    /\ task[p].kind = "doc" /\ task[p].pc = "hash_lookup"
    /\ LET d == task[p].doc
           doc_hash == compute_document_hash(pdf[d])
           existing == get_document_by_hash(meta, doc_hash)
       IN  IF doc_hash = NoHash
           THEN /\ meta' = upsert_document_metadata(meta, d, [status |-> "error_hash_computation"])
                /\ result' = [result EXCEPT ![d] = Returned("error", "error_hash_computation", NoDoc)]
                /\ task' = [task EXCEPT ![p] = Idle]
           ELSE /\ task' = [task EXCEPT ![p].pc = "hash_record",
                                        ![p].match = IF existing # d THEN existing ELSE NoDoc]
                /\ UNCHANGED << meta, result >>
    /\ UNCHANGED << pdf, pages, page_duplicates, decisions, document_vectors,
                    vectorizerFile, VECTORIZER, lshFile, fits, reviews, clusterings, search, lshTmp, norm >>

\* The row process_document writes after the lookup
HashRecordRow(doc_hash, match) ==
    IF match # NoDoc
    THEN [status |-> "exact_duplicate", matched_doc_id |-> match, content_hash |-> doc_hash]
    ELSE [content_hash |-> doc_hash, status |-> "processing_lsh"]

\* A stage 1 that persists the MinHash signature along with the verdict
PHashRecordSigned(p) ==
    /\ task[p].kind = "doc" /\ task[p].pc = "hash_record"
    /\ LET d == task[p].doc
           match == task[p].match
           upd == HashRecordRow(compute_document_hash(pdf[d]), match)
           signed == [f \in DOMAIN upd \cup { "minhash_signature" } |->
                        IF f = "minhash_signature"
                        THEN SigHex(get_minhash(extract_text_from_pdf(pdf[d])))
                        ELSE upd[f]]
       IN  IF UniqueViolation(meta, d, upd)
           THEN /\ meta' = CriticalRow(meta, d)
                /\ result' = [result EXCEPT ![d] = CriticalResult]
                /\ task' = [task EXCEPT ![p] = Idle]
           ELSE IF match # NoDoc
           THEN /\ meta' = upsert_document_metadata(meta, d, signed)
                /\ result' = [result EXCEPT ![d] = Returned("exact_duplicate", "exact_duplicate", match)]
                /\ task' = [task EXCEPT ![p] = Idle]
           ELSE /\ meta' = upsert_document_metadata(meta, d, upd)
                /\ task' = [task EXCEPT ![p].pc = "lsh"]
                /\ UNCHANGED result
    /\ UNCHANGED << pdf, pages, page_duplicates, decisions, document_vectors,
                    vectorizerFile, VECTORIZER, lshFile, fits, reviews, clusterings, search, lshTmp, norm >>

\* Stage 1, second half: record the verdict and the hash
PHashRecord(p) ==
    /\ task[p].kind = "doc" /\ task[p].pc = "hash_record"
    /\ LET d == task[p].doc
           match == task[p].match
           upd == HashRecordRow(compute_document_hash(pdf[d]), match)
       IN  IF UniqueViolation(meta, d, upd)
           THEN /\ meta' = CriticalRow(meta, d)
                /\ result' = [result EXCEPT ![d] = CriticalResult]
                /\ task' = [task EXCEPT ![p] = Idle]
           ELSE IF match # NoDoc
           THEN /\ meta' = upsert_document_metadata(meta, d, upd)
                /\ result' = [result EXCEPT ![d] = Returned("exact_duplicate", "exact_duplicate", match)]
                /\ task' = [task EXCEPT ![p] = Idle]
           ELSE /\ meta' = upsert_document_metadata(meta, d, upd)
                /\ task' = [task EXCEPT ![p].pc = "lsh"]
                /\ UNCHANGED result
    /\ UNCHANGED << pdf, pages, page_duplicates, decisions, document_vectors,
                    vectorizerFile, VECTORIZER, lshFile, fits, reviews, clusterings, search, lshTmp, norm >>

\* An LSH stage that also inserts the document into the snapshot and saves it
PLshInsert(p) ==
    /\ task[p].kind = "doc" /\ task[p].pc = "lsh"
    /\ LET d == task[p].doc
           minhash_obj == get_minhash(extract_text_from_pdf(pdf[d]))
           current_lsh_index == get_lsh_index_instance(lshFile)
       IN  /\ meta' = upsert_document_metadata(meta, d,
                         [minhash_signature |-> SigHex(minhash_obj), status |-> "processing_tfidf"])
           /\ task' = [task EXCEPT ![p].pc = "vectorize",
                                   ![p].cands = query_lsh_index(current_lsh_index, minhash_obj) \ {d}]
           /\ lshFile' = Pickled(current_lsh_index \cup { [doc_id |-> d, mh |-> minhash_obj] })
    /\ UNCHANGED << pdf, result, pages, page_duplicates, decisions, document_vectors,
                    vectorizerFile, VECTORIZER, fits, reviews, clusterings, search, lshTmp, norm >>

\* A stage 2 that lets the error of a missing or unreadable snapshot end the
\* run in the except branch
LshStageStrict(p, file, bound) ==
    LET d == task[p].doc
        minhash_obj == get_minhash(extract_text_from_pdf(pdf[d]))
    IN  IF bound /\ file.exists /\ file.whole
        THEN [meta |-> upsert_document_metadata(meta, d,
                          [minhash_signature |-> SigHex(minhash_obj),
                           status |-> "processing_tfidf"]),
              result |-> result,
              task |-> [task EXCEPT
                          ![p].pc = "vectorize",
                          ![p].cands = query_lsh_index(file.index, minhash_obj) \ {d},
                          ![p].work = @ \cup { "lsh_query", "minhash_persisted" }]]
        ELSE [meta |-> CriticalRow(meta, d),
              result |-> [result EXCEPT ![d] = CriticalResult],
              task |-> [task EXCEPT ![p] = Idle]]

\* Stage 2 of the run of p, reading the snapshot in file: the tables and the
\* locals it leaves.  The signature is a str written to a LargeBinary column;
\* whether the database driver binds it or the commit raises is decided
\* outside the repository, and both outcomes are taken: a raise ends the run
\* in the except branch.
LshStage(p, file, bound) ==
    LET d == task[p].doc
        minhash_obj == get_minhash(extract_text_from_pdf(pdf[d]))
        current_lsh_index == get_lsh_index_instance(file)
    IN  IF bound
        THEN [meta |-> upsert_document_metadata(meta, d,
                          [minhash_signature |-> SigHex(minhash_obj),
                           status |-> "processing_tfidf"]),
              result |-> result,
              task |-> [task EXCEPT
                          ![p].pc = "vectorize",
                          ![p].cands = query_lsh_index(current_lsh_index, minhash_obj) \ {d},
                          ![p].work = @ \cup { "lsh_query", "minhash_persisted" }]]
        ELSE [meta |-> CriticalRow(meta, d),
              result |-> [result EXCEPT ![d] = CriticalResult],
              task |-> [task EXCEPT ![p] = Idle]]

\* Stage 2: query the LSH snapshot, persist the signature
PLsh(p) ==
    /\ task[p].kind = "doc" /\ task[p].pc = "lsh"
    /\ \E bound \in BOOLEAN :
         LET next == LshStage(p, lshFile, bound)
         IN  /\ meta' = next.meta
             /\ result' = next.result
             /\ task' = next.task
    /\ UNCHANGED << pdf, pages, page_duplicates, decisions, document_vectors,
                    vectorizerFile, VECTORIZER, lshFile, fits, reviews, clusterings, search, lshTmp, norm >>

\* Stage 3: vectorize with the vectorizer this process has (or loads)
PVectorize(p) ==
    /\ task[p].kind = "doc" /\ task[p].pc = "vectorize"
    /\ LET d == task[p].doc
           vectorizer == LoadVectorizer(VECTORIZER[p], vectorizerFile)
           tfidf_vector == tfidf_vectorize(vectorizer, extract_text_from_pdf(pdf[d]))
       IN  /\ VECTORIZER' = [VECTORIZER EXCEPT ![p] = vectorizer]
           /\ IF tfidf_vector = NoVec
              THEN /\ meta' = upsert_document_metadata(meta, d, [status |-> "error_tfidf_vectorization"])
                   /\ result' = [result EXCEPT ![d] =
                                    Returned("error_tfidf_vectorization", "error_tfidf_vectorization", NoDoc)]
                   /\ task' = [task EXCEPT ![p] = Idle]
              ELSE /\ task' = [task EXCEPT ![p].pc = "store", ![p].vec = tfidf_vector]
                   /\ UNCHANGED << meta, result >>
    /\ UNCHANGED << pdf, pages, page_duplicates, decisions, document_vectors,
                    vectorizerFile, lshFile, fits, reviews, clusterings, search, lshTmp, norm >>

\* Stage 3: store the vector
PStore(p) ==
    /\ task[p].kind = "doc" /\ task[p].pc = "store"
    /\ document_vectors' = insert_document_vector(document_vectors, task[p].doc, task[p].vec)
    /\ task' = [task EXCEPT ![p].pc = "search", ![p].work = @ \cup { "vector_stored" }]
    /\ UNCHANGED << pdf, meta, result, pages, page_duplicates, decisions,
                    vectorizerFile, VECTORIZER, lshFile, fits, reviews, clusterings, search, lshTmp, norm >>

\* Python's argument binding: a call with npos positional arguments and the
\* keyword arguments kws to a function with these parameters raises TypeError
\* when there are too many positionals or a keyword names a parameter that a
\* positional already filled.
CallRaises(params, npos, kws) ==
    \/ npos > Len(params)
    \/ \E i \in 1..npos : i <= Len(params) /\ params[i] \in kws
    \/ \E k \in kws : k \notin Range(params)

\* def tfidf_search(query_vector, threshold=0.85)
TfidfSearchParams == << "query_vector", "threshold" >>

\* search_tfidf_vectors_in_db(db, tfidf_vector, threshold=...) raises
SearchCallRaises == CallRaises(TfidfSearchParams, 2, { "threshold" })

\* Stage 3: the similarity search and the verdict
PSearch(p) ==
    /\ task[p].kind = "doc" /\ task[p].pc = "search"
    /\ LET d == task[p].doc
           best_match_info == tfidf_search(document_vectors, task[p].vec, DocSimilarityThresholdPct)
       IN  IF SearchCallRaises
           THEN /\ meta' = CriticalRow(meta, d)
                /\ result' = [result EXCEPT ![d] = CriticalResult]
           ELSE IF best_match_info # NoMatch /\ best_match_info.matched_doc # d
           THEN /\ meta' = upsert_document_metadata(meta, d,
                              [status |-> "content_duplicate",
                               matched_doc_id |-> best_match_info.matched_doc,
                               similarity_score |-> best_match_info.similarity])
                /\ result' = [result EXCEPT ![d] =
                                 Returned("content_duplicate", "content_duplicate", NoDoc)]
           ELSE /\ meta' = upsert_document_metadata(meta, d, [status |-> "unique"])
                /\ result' = [result EXCEPT ![d] = Returned("unique", "unique", NoDoc)]
    /\ task' = [task EXCEPT ![p] = Idle]
    /\ UNCHANGED << pdf, pages, page_duplicates, decisions, document_vectors,
                    vectorizerFile, VECTORIZER, lshFile, fits, reviews, clusterings, search, lshTmp, norm >>

\* A database call of the running stage raises (the connection is lost) and
\* the database is still away in the except branch: the write of
\* error_pipeline_critical raises too, is logged, and process_document
\* returns its error result.
PFail(p) ==
    /\ task[p].kind = "doc"
    /\ result' = [result EXCEPT ![task[p].doc] = CriticalResult]
    /\ task' = [task EXCEPT ![p] = Idle]
    /\ UNCHANGED << pdf, meta, pages, page_duplicates, decisions, document_vectors,
                    vectorizerFile, VECTORIZER, lshFile, fits, reviews, clusterings, search, lshTmp, norm >>

\* ------------------------------------------------------ manage_tfidf_vectorizer_task
\* "\\n".join(...) puts a backslash and an n between two snippets;
\* preprocess_text deletes the backslash, so the last word of one snippet,
\* the n and the first word of the next become one token.  Fuse names it.
Fuse(x, y) == 10 * (x + 1) + y

RECURSIVE JoinSnippets(_, _)
JoinSnippets(acc, rest) ==
    IF rest = << >> THEN acc
    ELSE IF acc = << >> THEN JoinSnippets(Head(rest), Tail(rest))
    ELSE JoinSnippets(
            SubSeq(acc, 1, Len(acc) - 1)
                \o << Fuse(acc[Len(acc)], Head(Head(rest))) >>
                \o Tail(Head(rest)),
            Tail(rest))

HasSnippet(pg) == pg.text_snippet # << >>

\* The text the task rebuilds for document d: the snippets of its pages, by
\* page number (the pages of a document are created in that order)
RefitText(pgs, d) ==
    LET own == SelectSeq(pgs, LAMBDA pg : pg.document_id = d /\ HasSnippet(pg))
    IN  JoinSnippets(<< >>, [i \in 1..Len(own) |-> own[i].text_snippet])

\* doc_ids_for_revectorization: the documents whose rebuilt text is not blank
RefitIds(m, pgs) ==
    SortedSeq({ d \in DocIds : m[d].exists /\ Strip(RefitText(pgs, d)) # << >> })

\* manage_tfidf_vectorizer_task(force_refit) starts.  The branch taken when
\* force_refit is false and the file exists (skip) logs that fitting is
\* skipped; its return is commented out, and the task goes on to read the
\* documents and their pages.
RBegin(p, force_refit) ==
    /\ task[p].kind = "idle"
    /\ fits + Cardinality({ q \in Procs : task[q].kind = "refit" }) < MaxRefits
    /\ LET ids == RefitIds(meta, pages)
       IN  IF ids = << >>
           THEN UNCHANGED task
           ELSE task' = [task EXCEPT ![p] =
                    [Idle EXCEPT !.kind = "refit", !.pc = "fit", !.ids = ids,
                                 !.texts = [i \in 1..Len(ids) |-> RefitText(pages, ids[i])],
                                 !.before = document_vectors,
                                 !.skip = ~force_refit /\ vectorizerFile # NoVectorizer]]
    /\ UNCHANGED << pdf, meta, result, pages, page_duplicates, decisions, document_vectors,
                    vectorizerFile, VECTORIZER, lshFile, fits, reviews, clusterings, search, lshTmp, norm >>

\* The task as the beat schedule starts it: 'args': (False,)
RStart(p) == RBegin(p, FALSE)

\* fit_vectorizer_and_save: fit, then save, then replace this process's global.
\* A fit that raises passes control to the except clause of the task.
RFit(p) ==
    /\ task[p].kind = "refit" /\ task[p].pc = "fit"
    /\ IF FitRaises(task[p].texts)
       THEN /\ task' = [task EXCEPT ![p].pc = "except"]
            /\ UNCHANGED << vectorizerFile, VECTORIZER, fits >>
       ELSE LET new_vectorizer == [ver |-> fits + 1, vocab |-> FitVocabulary(task[p].texts)]
            IN  /\ vectorizerFile' = new_vectorizer
                /\ VECTORIZER' = [VECTORIZER EXCEPT ![p] = new_vectorizer]
                /\ fits' = fits + 1
                /\ task' = [task EXCEPT ![p].pc = "vec", ![p].i = 1]
    /\ UNCHANGED << pdf, meta, result, pages, page_duplicates, decisions, document_vectors,
                    lshFile, reviews, clusterings, search, lshTmp, norm >>

\* fit_vectorizer_and_save, step by step.  _save_vectorizer opens the live
\* file for writing; there is no temporary file.
\* The fit, and open(VECTORIZER_FILE, "wb"): the file is there and empty
RFitOpen(p) ==
    /\ task[p].kind = "refit" /\ task[p].pc = "fit"
    /\ IF FitRaises(task[p].texts)
       THEN /\ task' = [task EXCEPT ![p].pc = "except"]
            /\ UNCHANGED << vectorizerFile, fits >>
       ELSE /\ vectorizerFile' = PartialVectorizer
            /\ fits' = fits + 1
            /\ task' = [task EXCEPT
                          ![p].pc = "dump",
                          ![p].vectorizer = [ver |-> fits + 1,
                                             vocab |-> FitVocabulary(task[p].texts)]]
    /\ UNCHANGED << pdf, meta, result, pages, page_duplicates, decisions, document_vectors,
                    VECTORIZER, lshFile, reviews, clusterings, search, lshTmp, norm >>

\* pickle.dump(vectorizer, f) written to the end, and VECTORIZER = new_vectorizer
RFitDump(p) ==
    /\ task[p].kind = "refit" /\ task[p].pc = "dump"
    /\ vectorizerFile' = task[p].vectorizer
    /\ VECTORIZER' = [VECTORIZER EXCEPT ![p] = task[p].vectorizer]
    /\ task' = [task EXCEPT ![p].pc = "vec", ![p].i = 1, ![p].vectorizer = NoVectorizer]
    /\ UNCHANGED << pdf, meta, result, pages, page_duplicates, decisions, document_vectors,
                    lshFile, fits, reviews, clusterings, search, lshTmp, norm >>

\* The except clause of the task: it logs the critical error, and the task ends
RExcept(p) ==
    /\ task[p].kind = "refit" /\ task[p].pc = "except"
    /\ task' = [task EXCEPT ![p] = Idle]
    /\ UNCHANGED << pdf, meta, result, pages, page_duplicates, decisions, document_vectors,
                    vectorizerFile, VECTORIZER, lshFile, fits, reviews, clusterings, search, lshTmp, norm >>

\* One turn of the re-vectorization loop; the task returns after the last
RVec(p) ==
    /\ task[p].kind = "refit" /\ task[p].pc = "vec"
    /\ LET i == task[p].i
           vector == tfidf_vectorize(LoadVectorizer(VECTORIZER[p], vectorizerFile), task[p].texts[i])
       IN  /\ document_vectors' =
                  IF vector # NoVec
                  THEN insert_document_vector(document_vectors, task[p].ids[i], vector)
                  ELSE document_vectors
           /\ task' = IF i = Len(task[p].ids)
                      THEN [task EXCEPT ![p] = Idle]
                      ELSE [task EXCEPT ![p].i = i + 1]
    /\ UNCHANGED << pdf, meta, result, pages, page_duplicates, decisions,
                    vectorizerFile, VECTORIZER, lshFile, fits, reviews, clusterings, search, lshTmp, norm >>

\* ------------------------------------------------------ rebuild_global_lsh_index_task
\* rebuild_lsh_index_from_db: the rows with a signature, and the index made
\* of those that deserialize
SignatureRows(m) == { d \in DocIds : m[d].exists /\ m[d].minhash_signature # NoSig }

rebuild_lsh_index_from_db(m) ==
    { [doc_id |-> d, mh |-> m[d].minhash_signature.val] :
        d \in { e \in SignatureRows(m) : CanDeserialize(m[e].minhash_signature) } }

BBuild(p) ==
    /\ task[p].kind = "idle"
    /\ task' = [task EXCEPT ![p] =
                  [Idle EXCEPT !.kind = "rebuild", !.pc = "save",
                               !.rows = SignatureRows(meta),
                               !.index = rebuild_lsh_index_from_db(meta)]]
    /\ UNCHANGED << pdf, meta, result, pages, page_duplicates, decisions, document_vectors,
                    vectorizerFile, VECTORIZER, lshFile, fits, reviews, clusterings, search, lshTmp, norm >>

\* save_lsh_index_instance as one step: the temporary file written and
\* renamed over the snapshot, no other rebuild task saving meanwhile
BSave(p) ==
    /\ task[p].kind = "rebuild" /\ task[p].pc = "save"
    /\ lshFile' = Pickled(task[p].index)
    /\ task' = [task EXCEPT ![p] = Idle]
    /\ UNCHANGED << pdf, meta, result, pages, page_duplicates, decisions, document_vectors,
                    vectorizerFile, VECTORIZER, fits, reviews, clusterings, search, lshTmp, norm >>

\* save_lsh_index_instance, step by step.  Every rebuild task writes the
\* same temporary path.  task[p].fd names the file the open descriptor of p
\* refers to: "tmp", "live" once the file was renamed over the snapshot
\* under it, "unlinked" once another rename replaced that snapshot.
\* open(temp_file_path, 'wb'): creates the file or truncates the one there
BOpen(p) ==
    /\ task[p].kind = "rebuild" /\ task[p].pc = "save"
    /\ lshTmp' = Truncated
    /\ task' = [task EXCEPT ![p].pc = "dump", ![p].fd = "tmp"]
    /\ UNCHANGED << pdf, meta, result, pages, page_duplicates, decisions, document_vectors,
                    vectorizerFile, VECTORIZER, lshFile, fits, reviews, clusterings, search, norm >>

\* pickle.dump(lsh_index, f_temp), and the file is closed
BDump(p) ==
    /\ task[p].kind = "rebuild" /\ task[p].pc = "dump"
    /\ lshTmp' = IF task[p].fd = "tmp" THEN Pickled(task[p].index) ELSE lshTmp
    /\ lshFile' = IF task[p].fd = "live" THEN Pickled(task[p].index) ELSE lshFile
    /\ task' = [task EXCEPT ![p].pc = "rename", ![p].fd = "closed"]
    /\ UNCHANGED << pdf, meta, result, pages, page_duplicates, decisions, document_vectors,
                    vectorizerFile, VECTORIZER, fits, reviews, clusterings, search, norm >>

\* Where an open descriptor points after the temporary file was renamed
\* over the snapshot
AfterRename(fd) ==
    IF fd = "tmp" THEN "live" ELSE IF fd = "live" THEN "unlinked" ELSE fd

\* os.rename(temp_file_path, LSH_INDEX_FILE); without a temporary file it
\* raises, the error is logged and there is nothing to remove.  The task ends.
BRename(p) ==
    /\ task[p].kind = "rebuild" /\ task[p].pc = "rename"
    /\ IF lshTmp.exists
       THEN /\ lshFile' = lshTmp
            /\ lshTmp' = NoFile
            /\ task' = [q \in Procs |->
                          IF q = p THEN Idle
                          ELSE [task[q] EXCEPT !.fd = AfterRename(task[q].fd)]]
       ELSE /\ task' = [task EXCEPT ![p] = Idle]
            /\ UNCHANGED << lshFile, lshTmp, norm >>
    /\ UNCHANGED << pdf, meta, result, pages, page_duplicates, decisions, document_vectors,
                    vectorizerFile, VECTORIZER, fits, reviews, clusterings, search, norm >>

\* ------------------------------------------------------ page review
ManualNote == [auto |-> FALSE, of |-> NoHash]

AutoNote(page_hash) == [auto |-> TRUE, of |-> page_hash]

\* create_page_review_decision: the decision row, and Page.status
create_page_review_decision(db, page_id, decision, notes) ==
    << [db[1] EXCEPT ![page_id].status = decision],
       Append(db[2], [page_id |-> page_id, decision |-> decision, notes |-> notes]) >>

\* update_page_review_status: db is <<pages, decisions>>; unchanged when the
\* hash is unknown
update_page_review_status(db, page_hash, decision, notes) ==
    LET page_to_review == get_page_by_hash(db[1], page_hash)
    IN  IF page_to_review = NoPage THEN db
        ELSE create_page_review_decision(db, page_to_review, decision, notes)

\* find_page_duplicates
find_page_duplicates(pgs, dups, page_hash) ==
    LET source_page == get_page_by_hash(pgs, page_hash)
    IN  IF source_page = NoPage THEN {} ELSE get_duplicates_for_page(dups, source_page)

\* The loop of the endpoint over the duplicates, in id order
RECURSIVE UpdateDuplicates(_, _, _, _)
UpdateDuplicates(db, dup_ids, page_hash, status) ==
    IF dup_ids = << >> THEN db
    ELSE LET dup_page_obj == db[1][Head(dup_ids)]
         IN  IF dup_page_obj.page_hash = page_hash
             THEN UpdateDuplicates(db, Tail(dup_ids), page_hash, status)
             ELSE UpdateDuplicates(
                     update_page_review_status(db, dup_page_obj.page_hash, status,
                                               AutoNote(page_hash)),
                     Tail(dup_ids), page_hash, status)

\* POST /{page_hash}/status
update_page_review_status_endpoint(db, dups, page_hash, status) ==
    LET first == update_page_review_status(db, page_hash, status, ManualNote)
    IN  IF get_page_by_hash(db[1], page_hash) = NoPage THEN db
        ELSE UpdateDuplicates(first,
                 SortedSeq(find_page_duplicates(first[1], dups, page_hash)),
                 page_hash, status)

\* A reviewer looking at page q sets its status: the request carries q's hash
Review(q, status) ==
    /\ reviews < MaxReviews
    /\ q \in 1..Len(pages)
    /\ LET db == update_page_review_status_endpoint(<< pages, decisions >>, page_duplicates,
                                                    pages[q].page_hash, status)
       IN  /\ pages' = db[1]
           /\ decisions' = db[2]
    /\ reviews' = reviews + 1
    /\ UNCHANGED << pdf, meta, result, page_duplicates, document_vectors,
                    vectorizerFile, VECTORIZER, lshFile, task, fits, clusterings, search, lshTmp, norm >>

\* ------------------------------------------------------ run_clustering_task
\* ClusteringService.__init__: eps is a cosine distance, 1 - CLUSTER_THRESHOLD,
\* and 0.5 when that is not inside (0, 1); as a percentage
DbscanEpsPct ==
    IF 0 < 100 - ClusterThresholdPct /\ 100 - ClusterThresholdPct < 100
    THEN 100 - ClusterThresholdPct
    ELSE 50

\* f"cluster_{label}" if label != -1 else "outlier"
ClusterNames == << "cluster_0", "cluster_1", "cluster_2" >>

ClusterIdStr(label) == IF label = -1 THEN "outlier" ELSE ClusterNames[label + 1]

\* What run_dbscan_clustering returns when it does not cluster
NoLabels == << >>

\* _fetch_tfidf_vectors keeps the rows whose vector is not None and not empty
HasVector(r) == r.vec # NoVec /\ Len(r.vec.v) > 0

\* np.array over vectors of unequal length gives no matrix: the fetch logs the
\* error and returns ([], [], None)
Ragged(rows) == \E i, j \in 1..Len(rows) : Len(rows[i].vec.v) # Len(rows[j].vec.v)

\* _fetch_tfidf_vectors: the rows that make the matrix, in table order; << >>
\* stands for ([], [], None)
fetch_tfidf_vectors(rows) ==
    LET kept == SelectSeq(rows, HasVector)
    IN  IF Ragged(kept) THEN << >> ELSE kept

\* Cosine distance at most eps.  A zero vector is at distance 1 from every
\* other row.
WithinEps(a, b) ==
    /\ Dot(a, a) > 0
    /\ Dot(b, b) > 0
    /\ AtLeastThreshold(a, b, 100 - DbscanEpsPct)

\* The eps-neighbourhood of row i, row i included
Neighborhood(X, i) == { j \in 1..Len(X) : j = i \/ WithinEps(X[i].vec.v, X[j].vec.v) }

IsCore(X, i) == Cardinality(Neighborhood(X, i)) >= MinClusterSize

\* The rows a cluster grown from the rows in S takes: the neighbourhoods of
\* its core rows, and theirs
RECURSIVE Expand(_, _)
Expand(X, S) ==
    LET more == S \cup UNION { Neighborhood(X, i) : i \in { j \in S : IsCore(X, j) } }
    IN  IF more = S THEN S ELSE Expand(X, more)

\* DBSCAN.fit_predict: rows are visited in order; an unlabelled core row
\* opens the next cluster, which takes every row it reaches that has no label
\* yet.  labels[i] = -1 is noise.
RECURSIVE DbscanFrom(_, _, _, _)
DbscanFrom(X, i, labels, label_num) ==
    IF i > Len(X) THEN labels
    ELSE IF labels[i] # -1 \/ ~IsCore(X, i) THEN DbscanFrom(X, i + 1, labels, label_num)
    ELSE LET members == { j \in Expand(X, {i}) : labels[j] = -1 }
         IN  DbscanFrom(X, i + 1,
                        [j \in 1..Len(X) |-> IF j \in members THEN label_num ELSE labels[j]],
                        label_num + 1)

fit_predict(X) == DbscanFrom(X, 1, [i \in 1..Len(X) |-> -1], 0)

\* _store_cluster_assignments: one upsert of cluster_id per document
RECURSIVE store_cluster_assignments(_, _, _, _)
store_cluster_assignments(m, X, names, i) ==
    IF i > Len(X) THEN m
    ELSE store_cluster_assignments(
            upsert_document_metadata(m, X[i].document_id, [cluster_id |-> names[i]]),
            X, names, i + 1)

\* What a run leaves in clusterings when it returns: the rows it read, the
\* cluster_id it returned for each row, the cluster_id column as it left it,
\* and how many runs had returned when it read
ClusterRun(X, names, m, seen) ==
    [input |-> X, nodes |-> names, stored |-> [d \in DocIds |-> m[d].cluster_id],
     started |-> seen]

ClusterRunning == Cardinality({ q \in Procs : task[q].kind = "cluster" })

\* run_dbscan_clustering up to the clustering: the fetch, the return without
\* a matrix, the return with fewer rows than min_samples (every row is marked
\* outlier_insufficient_data), else fit_predict
CFetch(p) ==
    /\ task[p].kind = "idle"
    /\ Len(clusterings) + ClusterRunning < MaxClusterings
    /\ LET X == fetch_tfidf_vectors(document_vectors)
           few == [i \in 1..Len(X) |-> "outlier_insufficient_data"]
           marked == store_cluster_assignments(meta, X, few, 1)
       IN  IF X = << >>
           THEN /\ clusterings' = Append(clusterings, ClusterRun(X, NoLabels, meta, Len(clusterings)))
                /\ UNCHANGED << meta, task >>
           ELSE IF Len(X) < MinClusterSize
           THEN /\ meta' = marked
                /\ clusterings' = Append(clusterings, ClusterRun(X, few, marked, Len(clusterings)))
                /\ UNCHANGED task
           ELSE /\ task' = [task EXCEPT ![p] =
                              [Idle EXCEPT !.kind = "cluster", !.pc = "store", !.before = X,
                                           !.i = Len(clusterings)]]
                /\ UNCHANGED << meta, clusterings >>
    /\ UNCHANGED << pdf, result, pages, page_duplicates, decisions, document_vectors,
                    vectorizerFile, VECTORIZER, lshFile, fits, reviews, search, lshTmp, norm >>

\* A clustering that numbers its clusters on from the runs before it
CStoreNumbered(p) ==
    /\ task[p].kind = "cluster" /\ task[p].pc = "store"
    /\ LET X == task[p].before
           cluster_labels == fit_predict(X)
           names == [i \in 1..Len(X) |->
                       IF cluster_labels[i] = -1 THEN "outlier"
                       ELSE ClusterIdStr(cluster_labels[i] + Len(clusterings))]
           stored == store_cluster_assignments(meta, X, names, 1)
       IN  /\ meta' = stored
           /\ clusterings' = Append(clusterings, ClusterRun(X, names, stored, task[p].i))
    /\ task' = [task EXCEPT ![p] = Idle]
    /\ UNCHANGED << pdf, result, pages, page_duplicates, decisions, document_vectors,
                    vectorizerFile, VECTORIZER, lshFile, fits, reviews, search, lshTmp, norm >>

\* run_dbscan_clustering from the clustering on: the labels are stored and
\* returned
CStore(p) ==
    /\ task[p].kind = "cluster" /\ task[p].pc = "store"
    /\ LET X == task[p].before
           cluster_labels == fit_predict(X)
           names == [i \in 1..Len(X) |-> ClusterIdStr(cluster_labels[i])]
           stored == store_cluster_assignments(meta, X, names, 1)
       IN  /\ meta' = stored
           /\ clusterings' = Append(clusterings, ClusterRun(X, names, stored, task[p].i))
    /\ task' = [task EXCEPT ![p] = Idle]
    /\ UNCHANGED << pdf, result, pages, page_duplicates, decisions, document_vectors,
                    vectorizerFile, VECTORIZER, lshFile, fits, reviews, search, lshTmp, norm >>

\* ------------------------------------------------------ tfidf_search, called directly
\* Vectors at cosine similarity exactly 0.85 (the second to the first),
\* just below it (the third to the first), exactly 0.6 (the fifth to the
\* sixth), 1 and 0, and a zero vector
SearchVectors ==
    { << 1, 0, 0, 0, 0 >>, << 17, 10, 3, 1, 1 >>, << 17, 10, 3, 1, 2 >>,
      << 0, 0, 0, 0, 0 >>, << 3, 4 >>, << 5, 0 >> }

SearchThresholds == { DocSimilarityThresholdPct, 60, 100 }

\* The document_vectors tables searched: up to MaxSearchRows rows
SearchTables ==
    UNION { [1..n -> SearchVectors] : n \in 0..MaxSearchRows }

\* SimilarityEngine.find_duplicate: tfidf_search(query_vector, threshold=threshold)
TSearch(q, pct) ==
    /\ search' = [query |-> q, threshold |-> pct, called |-> TRUE,
                  out |-> tfidf_search(document_vectors, q, pct)]
    /\ UNCHANGED << pdf, meta, result, pages, page_duplicates, decisions, document_vectors,
                    vectorizerFile, VECTORIZER, lshFile, task, fits, reviews, clusterings, lshTmp, norm >>

\* ------------------------------------------------------ specifications
Pipeline(p) ==
    \/ \E d \in DocIds : PStart(p, d)
    \/ PExtract(p)
    \/ PHashLookup(p)
    \/ PHashRecord(p)
    \/ PLsh(p)
    \/ PVectorize(p)
    \/ PStore(p)
    \/ PSearch(p)

\* What a worker process runs: one task at a time
Worker(p) ==
    \/ Pipeline(p)
    \/ RStart(p)
    \/ RFit(p)
    \/ RExcept(p)
    \/ RVec(p)
    \/ BBuild(p)
    \/ BSave(p)

Next == \E p \in Procs : Worker(p)

\* The worker processes: document pipelines, vectorizer tasks, LSH rebuilds
Spec == Init /\ [][Next]_vars

\* The ids the pages table can hold
PageIds == 1..(2 * NDocs)

NextReview ==
    \/ \E p \in Procs : Worker(p)
    \/ \E q \in PageIds : \E status \in ReviewStatuses : Review(q, status)

\* Uploads that share pages: a page repeated inside one document and met
\* again in a later one
ReviewInputs ==
    { << << <<1>>, <<1>> >>, << <<1>> >>, << <<1, 2, 1>> >> >>,
      << << <<1>> >>, << <<1, 2, 1>> >>, << <<0>>, <<1>> >> >> }

InitReview ==
    /\ pdf \in ReviewInputs
    /\ InitTables

\* The worker processes and the page review endpoint
SpecReview == InitReview /\ [][NextReview]_vars

\* Uploads whose vectors cluster: two documents with the same term and one
\* without it
ClusterInputs ==
    { << << <<1>> >>, << <<1>> >>, << <<0>> >> >>,
      << << <<1, 2, 1>> >>, << <<1>> >>, << <<0>> >> >> }

InitCluster ==
    /\ pdf \in ClusterInputs
    /\ InitTables

\* The tasks that write or read document_vectors and cluster_id
NextCluster ==
    \E p \in Procs :
        \/ Pipeline(p)
        \/ RStart(p)
        \/ RFit(p)
        \/ RExcept(p)
        \/ RVec(p)
        \/ CFetch(p)
        \/ CStore(p)

\* The worker processes with the periodic clustering task
SpecCluster == InitCluster /\ [][NextCluster]_vars

\* Uploads that take the pipeline through every stage
OutageInputs ==
    { << << <<1>> >>, << <<1>> >>, << <<0>> >> >>,
      << << <<1, 2, 1>> >>, << <<1>> >>, << << >> >> >>,
      << << <<1>> >>, Unreadable, << << >> >> >> }

InitOutage ==
    /\ pdf \in OutageInputs
    /\ InitTables

OutageWorker(p) ==
    \/ Pipeline(p)
    \/ PFail(p)
    \/ RStart(p)
    \/ RFit(p)
    \/ RExcept(p)
    \/ RVec(p)

NextOutage == \E p \in Procs : OutageWorker(p)

\* The pipelines and the vectorizer task over a database that can go away
SpecOutage == InitOutage /\ [][NextOutage]_vars

\* Uploads of one text twice, and the files uploaded again under an id: a
\* file with its text on page 2, a page number the first upload left free
RerunInputs == { << << <<1>> >>, << <<1>> >>, << <<0>> >> >> }

RerunFiles == { << << >>, <<1, 2, 1>> >> }

InitRerun ==
    /\ pdf \in RerunInputs
    /\ InitTables

NextRerun ==
    \E p \in Procs :
        \/ Pipeline(p)
        \/ \E d \in DocIds : \E f \in RerunFiles : PRerun(p, d, f)
        \/ RStart(p)
        \/ RFit(p)
        \/ RExcept(p)
        \/ RVec(p)

\* The pipelines, documents processed again, and the vectorizer task
SpecRerun == InitRerun /\ [][NextRerun]_vars

\* Uploads with a signature to index
SnapshotInputs ==
    { << << <<1, 2, 1>> >>, << <<1>> >>, << <<0>> >> >>,
      << << <<1, 2, 1>> >>, << <<1, 2, 1>> >>, << <<1>> >> >> }

InitSnapshot ==
    /\ pdf \in SnapshotInputs
    /\ InitTables

NextSnapshot ==
    \E p \in Procs :
        \/ Pipeline(p)
        \/ RStart(p)
        \/ RFit(p)
        \/ RExcept(p)
        \/ RVec(p)
        \/ BBuild(p)
        \/ BOpen(p)
        \/ BDump(p)
        \/ BRename(p)

\* The worker processes, the snapshot saved step by step
SpecSnapshot == InitSnapshot /\ [][NextSnapshot]_vars

\* Uploads that share page texts, with a page text that differs from another
\* by a blank only (<<1, Gap, 2>> is what pdf_reader makes of "a , b"), and
\* with pages without text before pages with text
PagesInputs ==
    { << << <<1>> >>, << <<1>>, <<1>> >>, << << >>, <<1, 2>> >> >>,
      << << <<1, Gap, 2>> >>, << <<1, 2>> >>, << << >>, <<2>>, <<1>> >> >> }

InitPages ==
    /\ pdf \in PagesInputs
    /\ InitTables

NextPages ==
    \E p \in Procs :
        \/ \E d \in DocIds : PStart(p, d)
        \/ PExtractText(p)
        \/ PPageLookup(p)
        \/ PPageCreate(p)
        \/ PHashLookup(p)
        \/ PHashRecord(p)
        \/ PLsh(p)
        \/ PVectorize(p)
        \/ PStore(p)
        \/ PSearch(p)
        \/ RStart(p)
        \/ RFit(p)
        \/ RExcept(p)
        \/ RVec(p)

\* The pipelines with the pages registered one commit at a time, and the
\* vectorizer task
SpecPages == InitPages /\ [][NextPages]_vars

\* Uploads that give the vectorizer task a vocabulary
RefitInputs ==
    { << << <<1>> >>, << <<1>> >>, << <<0>> >> >>,
      << << <<1, 2, 1>> >>, << <<1>> >>, << <<0>> >> >> }

InitRefit ==
    /\ pdf \in RefitInputs
    /\ InitTables

NextRefit ==
    \E p \in Procs :
        \/ Pipeline(p)
        \/ \E force_refit \in BOOLEAN : RBegin(p, force_refit)
        \/ RFitOpen(p)
        \/ RFitDump(p)
        \/ RExcept(p)
        \/ RVec(p)

\* The pipelines and the vectorizer task, started by the schedule or on
\* demand, its file written step by step
SpecRefit == InitRefit /\ [][NextRefit]_vars

\* The texts normalize_for_hash is called with: up to MaxTextLen tokens
NormTokens == { 1, 2, Caps + 1, Gap, Punct }

NormTexts == UNION { [1..n -> NormTokens] : n \in 0..MaxTextLen }

InitNormalize ==
    /\ pdf = [d \in DocIds |-> << <<1>> >>]
    /\ InitDatabase
    /\ norm \in [1..NormCalls -> { << text >> : text \in NormTexts }]

\* normalize_for_hash(text), called with the argument and then with what it
\* returned
Normalize(k) ==
    /\ Len(norm[k]) <= NormRepeats
    /\ norm' = [norm EXCEPT ![k] = Append(@, normalize_for_hash(@[Len(@)]))]
    /\ UNCHANGED << pdf, meta, result, pages, page_duplicates, decisions, document_vectors,
                    vectorizerFile, VECTORIZER, lshFile, task, fits, reviews, clusterings,
                    search, lshTmp >>

NextNormalize == \E k \in 1..NormCalls : Normalize(k)

\* normalize_for_hash as a function of its argument
SpecNormalize == InitNormalize /\ [][NextNormalize]_vars

\* A worker process that has a step to take takes one: Celery runs the task
\* it was handed to the end
SpecOutageFair == SpecOutage /\ \A p \in Procs : WF_vars(OutageWorker(p))

\* Any table of stored vectors; nothing else is running
InitSearch ==
    /\ pdf = [d \in DocIds |-> << << >> >>]
    /\ meta = [d \in DocIds |-> NoRow]
    /\ result = [d \in DocIds |-> NoResult]
    /\ pages = << >>
    /\ page_duplicates = {}
    /\ decisions = << >>
    /\ \E t \in SearchTables :
          document_vectors = [i \in 1..Len(t) |-> [document_id |-> i, vec |-> [ver |-> 1, v |-> t[i]]]]
    /\ vectorizerFile = NoVectorizer
    /\ VECTORIZER = [p \in Procs |-> NoVectorizer]
    /\ lshFile = NoFile
    /\ task = [p \in Procs |-> Idle]
    /\ fits = 0
    /\ reviews = 0
    /\ clusterings = << >>
    /\ search = NoSearch
    /\ lshTmp = NoFile
    /\ norm = << >>

NextSearch ==
    \E q \in { NoVec } \cup { [ver |-> 1, v |-> x] : x \in SearchVectors } :
        \E pct \in SearchThresholds : TSearch(q, pct)

\* Direct calls of tfidf_search over a table of stored vectors
SpecSearch == InitSearch /\ [][NextSearch]_vars

\* ====================================================== claims
SameText(d1, d2) ==
    /\ extract_text_from_pdf(pdf[d1]) = extract_text_from_pdf(pdf[d2])
    /\ extract_text_from_pdf(pdf[d1]) # << >>

\* d is the first document uploaded with its text
FirstWithText(d) == \A e \in DocIds : e < d => ~SameText(e, d)

\* Process p takes a step of process_document, and returns with it
PipelineReturns(p) == task[p].kind = "doc" /\ task'[p].kind = "idle"

\* C1: a document whose text equals that of a document fully processed
\* before its own run began ends exact_duplicate, returned and persisted,
\* with matched_doc_id the first document's id.
C1_ExactDuplicateOfFirst ==
    [][\A p \in Procs :
         PipelineReturns(p) =>
            \A d1 \in task[p].after :
               (SameText(d1, task[p].doc) /\ FirstWithText(d1)) =>
                  /\ result'[task[p].doc].status = "exact_duplicate"
                  /\ result'[task[p].doc].matched_doc_id = d1
                  /\ meta'[task[p].doc].status = "exact_duplicate"
                  /\ meta'[task[p].doc].matched_doc_id = d1]_vars

\* The other documents whose stored vector is at or above the document
\* threshold with vector v
SimilarOthers(rows, d, v) ==
    { rows[i].document_id : i \in { j \in 1..Len(rows) :
        /\ rows[j].document_id # d
        /\ ~SearchSkips(v, rows[j].vec.v)
        /\ Dot(v, v) # 0
        /\ AtLeastThreshold(v, rows[j].vec.v, DocSimilarityThresholdPct) } }

\* C2: a document that reaches the similarity search with a vector ends
\* content_duplicate, with a score and a matched id among the other documents
\* at or above the threshold, whenever there is one, and ends unique only
\* when there is none.
C2_TfidfVerdict ==
    [][\A p \in Procs :
         (PipelineReturns(p) /\ task[p].pc = "search") =>
            LET d == task[p].doc
                similar == SimilarOthers(document_vectors, d, task[p].vec.v)
            IN  /\ similar # {} =>
                      /\ meta'[d].status = "content_duplicate"
                      /\ meta'[d].matched_doc_id \in similar
                      /\ meta'[d].similarity_score # NoSim
                /\ meta'[d].status = "unique" => similar = {}]_vars

\* Process p has looked the hash of its document up and found no match
HoldsNoMatch(p) ==
    task[p].kind = "doc" /\ task[p].pc = "hash_record" /\ task[p].match = NoDoc

\* C3: of two workers processing documents with identical text, at most one
\* concludes "no match", and once both have returned one of the documents is
\* exact_duplicate referencing the other.
C3_AtomicHashCheck ==
    /\ \A p1, p2 \in Procs :
          (p1 # p2 /\ HoldsNoMatch(p1) /\ HoldsNoMatch(p2))
             => ~SameText(task[p1].doc, task[p2].doc)
    /\ \A d1, d2 \in DocIds :
          (d1 < d2 /\ SameText(d1, d2) /\ FirstWithText(d1)
                   /\ result[d1] # NoResult /\ result[d2] # NoResult)
             => \/ meta[d2].status = "exact_duplicate" /\ meta[d2].matched_doc_id = d1
                \/ meta[d1].status = "exact_duplicate" /\ meta[d1].matched_doc_id = d2

\* The last decision recorded for page q is an automatic one for this hash
AutoUpdated(decs, q, page_hash) ==
    \E i \in 1..Len(decs) :
        /\ decs[i].page_id = q
        /\ decs[i].notes = AutoNote(page_hash)
        /\ \A j \in (i + 1)..Len(decs) : decs[j].page_id # q

\* C4: when a reviewer sets the status of page q, every page recorded as a
\* duplicate of q ends with that status and an automatic-update note.
C4_StatusPropagation ==
    [][\A q \in PageIds : \A status \in ReviewStatuses :
         Review(q, status) =>
            \A e \in page_duplicates :
               e[1] = q =>
                  /\ pages'[e[2]].status = status
                  /\ AutoUpdated(decisions', e[2], pages[q].page_hash)]_vars

\* C5: setting the status of a page that is recorded as a duplicate leaves
\* the status of its source page, and of the source's other duplicates,
\* as it was.
C5_NoRetroactiveChange ==
    [][\A q \in PageIds : \A status \in ReviewStatuses :
         Review(q, status) =>
            \A e \in page_duplicates :
               e[2] = q =>
                  /\ pages'[e[1]].status = pages[e[1]].status
                  /\ \A f \in page_duplicates :
                        (f[1] = e[1] /\ f[2] # q) =>
                           pages'[f[2]].status = pages[f[2]].status]_vars

\* The signatures a query can carry
Signatures == { get_minhash(extract_text_from_pdf(f)) : f \in Catalogue }

\* What a query of the live snapshot returns for a signature
LiveQuery(file, mh) == query_lsh_index(get_lsh_index_instance(file), mh)

\* The step is taken by process p while it runs this kind of task
StepOf(p, kind) ==
    /\ task'[p] # task[p]
    /\ task[p].kind = kind \/ task'[p].kind = kind

\* C6: a step of process_document, which may persist a MinHash signature,
\* leaves the LSH snapshot and the result of every query of it as they were;
\* the snapshot changes only by a step of the rebuild task.
C6_SnapshotFrozen ==
    [][/\ \A p \in Procs :
            StepOf(p, "doc") =>
               /\ lshFile' = lshFile
               /\ \A mh \in Signatures : LiveQuery(lshFile', mh) = LiveQuery(lshFile, mh)
       /\ lshFile' # lshFile => \E p \in Procs : StepOf(p, "rebuild")]_vars

\* C6 witness: a snapshot file exists, a pipeline has just persisted the
\* signature of its document, and a query of the snapshot with that signature
\* does not return the document.
C6_Witness ==
    \E p \in Procs :
        /\ task[p].kind = "doc" /\ task[p].pc = "vectorize"
        /\ lshFile.exists
        /\ meta[task[p].doc].minhash_signature # NoSig
        /\ task[p].doc \notin LiveQuery(lshFile, meta[task[p].doc].minhash_signature.val)

\* C7: when a rebuild completes, every document whose signature was
\* persisted when the rebuild read the table is returned by a query of the
\* new snapshot with that signature.
C7_RebuildComplete ==
    [][\A p \in Procs :
         (StepOf(p, "rebuild") /\ task[p].pc = "save") =>
            \A d \in task[p].rows :
               d \in LiveQuery(lshFile', meta[d].minhash_signature.val)]_vars

\* tfidf_search can return document d: its stored vector is not skipped
InSearch(rows, d) ==
    /\ HasVectorRow(rows, d)
    /\ get_document_vector(rows, d).v # << >>
    /\ Dot(get_document_vector(rows, d).v, get_document_vector(rows, d).v) # 0

\* Process p finishes a vectorizer task that has refitted
RefitReturns(p) ==
    task[p].kind = "refit" /\ task[p].pc = "vec" /\ task'[p].kind = "idle"

\* C8: when a vectorizer task that refitted returns, every document that had
\* a stored vector when the task began has a vector of the new version, and
\* those tfidf_search could return can still be returned.
C8_RefitKeepsDocuments ==
    [][\A p \in Procs :
         RefitReturns(p) =>
            \A d \in DocIds :
               HasVectorRow(task[p].before, d) =>
                  /\ get_document_vector(document_vectors', d).ver = VECTORIZER[p].ver
                  /\ InSearch(task[p].before, d) => InSearch(document_vectors', d)]_vars

\* A refit is in progress: the vectorizer is swapped, the corpus not yet
\* re-vectorized
RefitInProgress == \E p \in Procs : task[p].kind = "refit" /\ task[p].pc = "vec"

RefitRunning == \E p \in Procs : task[p].kind = "refit"

\* A document pipeline is inside its TF-IDF stage: it holds a vector it has
\* computed and is about to store or compare it
InTfidfStage(p) == task[p].kind = "doc" /\ task[p].pc \in { "store", "search" }

\* C9: no document pipeline is inside its TF-IDF stage while a refit is in
\* progress, and whenever no refit is running all stored vectors come from
\* one vectorizer version.
C9_RefitExcludesPipelines ==
    /\ RefitInProgress => \A p \in Procs : ~InTfidfStage(p)
    /\ ~RefitRunning =>
          \A i, j \in 1..Len(document_vectors) :
             document_vectors[i].vec.ver = document_vectors[j].vec.ver

\* No fitted vectorizer, saved or cached, has an empty vocabulary
NoZeroTermVectorizer ==
    /\ vectorizerFile # NoVectorizer => vectorizerFile.vocab # {}
    /\ \A p \in Procs : VECTORIZER[p].ver >= 1 => VECTORIZER[p].vocab # {}

\* Corpora without text: the empty corpus, and texts that are empty or blank
BlankCorpora == { << >>, << << >> >>, << << >>, << Gap, Gap >> >> }

SameInputAsLast(k) ==
    /\ clusterings[k].started = k - 1
    /\ clusterings[k].input = clusterings[k - 1].input

Comparable(q, r) == q.ver # 0 /\ Dot(q.v, q.v) > 0 /\ ~SearchSkips(q.v, r.vec.v)

BestAtLeast(rows, q, pct) ==
    \E i \in 1..Len(rows) :
        /\ Comparable(q, rows[i])
        /\ 10000 * Dot(q.v, rows[i].vec.v) * Dot(q.v, rows[i].vec.v)
             >= pct * pct * Dot(q.v, q.v) * Dot(rows[i].vec.v, rows[i].vec.v)

IsBest(rows, q, d) ==
    \E i \in 1..Len(rows) :
        /\ rows[i].document_id = d
        /\ Comparable(q, rows[i])
        /\ \A j \in 1..Len(rows) :
              Comparable(q, rows[j]) =>
                  Dot(q.v, rows[i].vec.v) * Dot(q.v, rows[i].vec.v)
                        * Dot(rows[j].vec.v, rows[j].vec.v)
                    >= Dot(q.v, rows[j].vec.v) * Dot(q.v, rows[j].vec.v)
                        * Dot(rows[i].vec.v, rows[i].vec.v)

ReturnsCritical(d) == result'[d] # result[d] /\ result'[d].status = "error"
                        /\ result'[d].final_status = "error_pipeline_critical"

C13_CriticalPersisted ==
    [][\A d \in DocIds :
          ReturnsCritical(d) => meta'[d].status = "error_pipeline_critical"]_vars


\* C14: every document process_document was started for eventually has a
\* stored status that is not one of the processing statuses.
ProcessingStatuses ==
    { "processing_extraction", "processing_hash_check", "processing_lsh", "processing_tfidf" }

C14_EventuallyTerminal ==
    \A d \in DocIds :
        [](meta[d].exists => <>(meta[d].status \notin ProcessingStatuses))


\* C15: the LSH stage of a pipeline never loads a snapshot file whose pickle
\* is not written to the end, whatever the rebuild tasks are doing.
LoadsSnapshot(p) == task[p].kind = "doc" /\ task[p].pc = "lsh" /\ task'[p] # task[p]

DuplicateStatuses == { "exact_duplicate", "content_duplicate" }

C16_MatchOnlyOnDuplicate ==
    \A d \in DocIds :
        (meta[d].matched_doc_id # NoDoc \/ meta[d].similarity_score # NoSim)
            => meta[d].status \in DuplicateStatuses


\* C17: the step by which a run returns exact_duplicate is taken by a run
\* that has queried no LSH snapshot, persisted no MinHash signature and stored
\* no TF-IDF vector, and the step itself leaves the signature of the
\* document, the stored vectors and the snapshot as they were.
ReturnsExactDuplicate(p) ==
    /\ task[p].kind = "doc"
    /\ result'[task[p].doc] # result[task[p].doc]
    /\ result'[task[p].doc].status = "exact_duplicate"

C17_ExactDuplicateNoLaterStage ==
    [][\A p \in Procs :
          ReturnsExactDuplicate(p) =>
              /\ task[p].work = {}
              /\ meta'[task[p].doc].minhash_signature = meta[task[p].doc].minhash_signature
              /\ document_vectors' = document_vectors
              /\ lshFile' = lshFile]_vars

\* A document whose run returned exact_duplicate, with no signature and no vector
C17_Witness ==
    \E d \in DocIds :
        /\ result[d].status = "exact_duplicate"
        /\ meta[d].status = "exact_duplicate"
        /\ meta[d].minhash_signature = NoSig
        /\ ~HasVectorRow(document_vectors, d)


\* C18: what stage 2 leaves in the tables and returns is the same whatever
\* the LSH snapshot holds (populated, empty, missing, unreadable): only the
\* candidates, a local of the run that no later stage reads, differ; with a
\* missing or unreadable snapshot there are no candidates.  The verdict of
\* stage 3 is a function of the document, its vector and the stored vectors.
SnapshotStates ==
    { NoFile, Truncated, Pickled({}) }
        \cup { Pickled({ [doc_id |-> e, mh |-> get_minhash(extract_text_from_pdf(pdf[e]))] })
                 : e \in DocIds }

WithoutCands(t) == [q \in Procs |-> [t[q] EXCEPT !.cands = {}]]

SameButCands(p, file) ==
    \E bound \in BOOLEAN :
        LET next == LshStage(p, file, bound)
        IN  /\ meta' = next.meta
            /\ result' = next.result
            /\ WithoutCands(task') = WithoutCands(next.task)
            /\ ~(file.exists /\ file.whole) /\ bound => next.task[p].cands = {}

SearchVerdict(d, vec, rows) ==
    LET best_match_info == tfidf_search(rows, vec, DocSimilarityThresholdPct)
    IN  IF SearchCallRaises THEN "error_pipeline_critical"
        ELSE IF best_match_info # NoMatch /\ best_match_info.matched_doc # d
             THEN "content_duplicate"
             ELSE "unique"

InStage3(p) == task[p].kind = "doc" /\ task[p].pc = "search" /\ task'[p] # task[p]

C18_VerdictIgnoresSnapshot ==
    [][\A p \in Procs :
          /\ LoadsSnapshot(p) => \A file \in SnapshotStates : SameButCands(p, file)
          /\ InStage3(p) =>
                /\ meta'[task[p].doc].status
                      = SearchVerdict(task[p].doc, task[p].vec, document_vectors)
                /\ result'[task[p].doc].final_status = meta'[task[p].doc].status]_vars

\* A run that passed stage 2 over an unreadable snapshot, without candidates,
\* though the rebuilt snapshot would have given it one
C18_Witness ==
    \E p \in Procs :
        /\ task[p].kind = "doc" /\ task[p].pc = "vectorize"
        /\ lshFile.exists /\ ~lshFile.whole
        /\ task[p].cands = {}
        /\ \E e \in DocIds \ { task[p].doc } :
              /\ meta[e].minhash_signature # NoSig
              /\ JaccardAtLeast(get_minhash(extract_text_from_pdf(pdf[e])),
                                get_minhash(extract_text_from_pdf(pdf[task[p].doc])),
                                JaccardThresholdPct)


\* C19: when a run that has stored the content hash returns an error, the
\* hash it stored is still stored, and so is the MinHash signature if stage
\* 2 had stored it.
AfterHashStage == { "lsh", "vectorize", "store", "search" }

AfterLshStage == { "vectorize", "store", "search" }

FailsAfterHash(p) ==
    /\ task[p].kind = "doc"
    /\ task[p].pc \in AfterHashStage
    /\ result'[task[p].doc] # result[task[p].doc]
    /\ result'[task[p].doc].final_status
          \in { "error_tfidf_vectorization", "error_pipeline_critical" }

C19_FingerprintsKept ==
    [][\A p \in Procs :
          FailsAfterHash(p) =>
              LET d == task[p].doc
              IN  /\ meta'[d].content_hash = compute_document_hash(pdf[d])
                  /\ task[p].pc \in AfterLshStage =>
                        meta'[d].minhash_signature
                            = SigHex(get_minhash(extract_text_from_pdf(pdf[d])))]_vars

\* A run that ended in the except branch of stage 3 with both fingerprints stored
C19_Witness ==
    \E d \in DocIds :
        /\ result[d].final_status = "error_pipeline_critical"
        /\ meta[d].status = "error_pipeline_critical"
        /\ HasVectorRow(document_vectors, d)
        /\ meta[d].content_hash = compute_document_hash(pdf[d])
        /\ meta[d].minhash_signature = SigHex(get_minhash(extract_text_from_pdf(pdf[d])))


\* C20: when extract_text_from_pdf returns no text, the run ends there with
\* error_text_extraction, stored and returned, after one attempt at the
\* extraction; it creates no page and no page-duplicate edge, and the
\* document has no content hash, no MinHash signature and no vector.
EmptyTextStep(p) ==
    /\ task[p].kind = "doc" /\ task[p].pc = "extract"
    /\ task'[p] # task[p]
    /\ ~ExtractRaises(pdf[task[p].doc])
    /\ extract_text_from_pdf(pdf[task[p].doc]) = << >>

C20_EmptyTextEndsRun ==
    [][\A p \in Procs :
          EmptyTextStep(p) =>
              LET d == task[p].doc
              IN  /\ task'[p] = Idle
                  /\ result'[d] = Returned("error", "error_text_extraction", NoDoc)
                  /\ meta'[d].status = "error_text_extraction"
                  /\ ExtractAttempts(pdf[d], 1) = 1
                  /\ pages' = pages
                  /\ page_duplicates' = page_duplicates
                  /\ meta'[d].content_hash = NoHash
                  /\ meta'[d].minhash_signature = NoSig
                  /\ document_vectors' = document_vectors
                  /\ ~HasVectorRow(document_vectors', d)]_vars

\* A document without text after its run, and no page of it in the table
C20_Witness ==
    \E d \in DocIds :
        /\ extract_text_from_pdf(pdf[d]) = << >>
        /\ result[d].final_status = "error_text_extraction"
        /\ meta[d].status = "error_text_extraction"
        /\ meta[d].content_hash = NoHash
        /\ \A i \in 1..Len(pages) : pages[i].document_id # d
        /\ \E e \in DocIds : e # d /\ \E i \in 1..Len(pages) : pages[i].document_id = e


\* C21: every page is the duplicate end of at most one page-duplicate edge,
\* the source of every edge is the first page seen with the hash of its
\* duplicate, and every page whose hash an earlier page has is the duplicate
\* end of such an edge.
EdgesInto(q) == { e \in page_duplicates : e[2] = q }

AtMostOneSource == \A q \in 1..Len(pages) : Cardinality(EdgesInto(q)) <= 1

SourceIsFirstSeen ==
    \A e \in page_duplicates : e[1] = get_page_by_hash(pages, pages[e[2]].page_hash)

LaterPagesLinked ==
    \A q \in 1..Len(pages) :
        get_page_by_hash(pages, pages[q].page_hash) # q => EdgesInto(q) # {}

C21_OneCanonicalSource ==
    /\ AtMostOneSource
    /\ SourceIsFirstSeen
    /\ LaterPagesLinked


\* C22: a clustering run that finds fewer rows with a valid vector than the
\* minimum cluster size returns in the same step without clustering, with
\* no cluster, and leaves every row it fetched labelled with the outlier
\* sentinel.
OutlierSentinel == ClusterIdStr(-1)

\* A run of run_dbscan_clustering starts with this step and fetches fewer
\* rows than min_samples
StartsOnFewRows ==
    /\ \E p \in Procs : CFetch(p)
    /\ Len(fetch_tfidf_vectors(document_vectors)) < MinClusterSize

C22_FewRowsAllOutliers ==
    [][StartsOnFewRows =>
          LET X == fetch_tfidf_vectors(document_vectors)
              run == clusterings'[Len(clusterings')]
          IN  /\ Len(clusterings') = Len(clusterings) + 1
              /\ task' = task
              /\ run.input = X
              /\ \A i \in 1..Len(run.nodes) : run.nodes[i] \notin Range(ClusterNames)
              /\ \A i \in 1..Len(X) :
                    meta'[X[i].document_id].cluster_id = OutlierSentinel]_vars


\* C23: at no time are two clustering runs in progress: no two worker
\* processes are between the fetch of the vectors and the storing of the
\* labels at once.
C23_ClusterRunsExclusive == ClusterRunning <= 1


\* C24: once a vectorizer task has fitted and saved a vectorizer and no such
\* task is running, a pipeline that vectorizes, in whatever worker process,
\* does so with the vectorizer fitted last.
RefitCompleted == fits >= 1 /\ \A q \in Procs : task[q].kind # "refit"

\* Process p takes the vectorize step of stage 3: it goes on to store the
\* vector, or returns because there is none
Vectorizes(p) ==
    /\ task[p].kind = "doc" /\ task[p].pc = "vectorize"
    /\ \/ task'[p].pc = "store"
       \/ result'[task[p].doc].final_status = "error_tfidf_vectorization"

C24_VectorizeWithNewest ==
    [][\A p \in Procs :
          (RefitCompleted /\ Vectorizes(p)) =>
              /\ VECTORIZER'[p] = vectorizerFile
              /\ VECTORIZER'[p].ver = fits]_vars


\* C25: the page hash is taken over the same normal form as the document
\* hash: two registered pages whose texts differ only by what
\* normalize_for_hash removes have the same page hash, the equality on which
\* the page-duplicate edge between them rests.
PageText(q) == extract_pages_from_pdf(pdf[pages[q].document_id])[pages[q].page_number]

SameNormalForm(q1, q2) ==
    normalize_for_hash(PageText(q1)) = normalize_for_hash(PageText(q2))

C25_PageHashNormalized ==
    \A q1, q2 \in 1..Len(pages) :
        SameNormalForm(q1, q2) => pages[q1].page_hash = pages[q2].page_hash


\* C26: for a document whose text has fewer than three words, stage 2 goes
\* on to stage 3 without an error and with no LSH candidate, whatever
\* snapshot a rebuild has saved.
NoShingles(d) == get_minhash(extract_text_from_pdf(pdf[d])) = {}

\* Process p takes the step of stage 2
InStage2(p) ==
    /\ task[p].kind = "doc" /\ task[p].pc = "lsh"
    /\ task'[p] # task[p]

C26_DegenerateSignature ==
    [][\A p \in Procs :
          (InStage2(p) /\ NoShingles(task[p].doc)) =>
              /\ task'[p].kind = "doc"
              /\ task'[p].pc = "vectorize"
              /\ result'[task[p].doc] = result[task[p].doc]
              /\ task'[p].cands = {}]_vars


\* C27: a vectorizer task that was started with force_refit false while a
\* vectorizer file existed fits no vectorizer, and no step of it changes the
\* vectorizer file or a stored document vector.
SkippingStep(p) ==
    /\ task[p].kind = "refit"
    /\ task[p].skip
    /\ task'[p] # task[p]

C27_NoRefitUnlessForced ==
    [][\A p \in Procs :
          SkippingStep(p) =>
              /\ fits' = fits
              /\ vectorizerFile' = vectorizerFile
              /\ document_vectors' = document_vectors]_vars


\* C28: a process that loads the persisted vectorizer while a refit is saving
\* it gets a complete vectorizer, the one the file holds, and never finds a
\* partially written file.
Saving == \E q \in Procs : task[q].kind = "refit" /\ task[q].pc = "dump"

Loads(p) ==
    /\ task[p].kind = "doc" /\ task[p].pc = "vectorize"
    /\ VECTORIZER[p] = NoVectorizer
    /\ VECTORIZER'[p] # NoVectorizer

C28_LoadSeesWholeVectorizer ==
    [][\A p \in Procs :
          (Saving /\ Loads(p)) =>
              /\ vectorizerFile # PartialVectorizer
              /\ VECTORIZER'[p] = vectorizerFile]_vars


\* C30: every page record holds, as its medical confidence, the score of the
\* text of that page, also in a document that has pages without text.
ScoredFromOwnText(q) ==
    pages[q].medical_confidence = measure_medical_confidence(PageText(q))

C30_ConfidenceOfOwnPage == \A q \in 1..Len(pages) : ScoredFromOwnText(q)

\* C29: what normalize_for_hash returns has no two blanks in a row, the
\* function returns its own result unchanged, and two texts that differ only
\* by punctuation marks standing between blanks are normalized to the same
\* text, hence to the same content hash.
BlankRun(text) == \E i \in 2..(Len(text) - 1) : text[i] = Gap

NotMark(x) == x # Punct

C29_NormalizeIdempotent ==
    /\ \A k \in 1..Len(norm) :
          /\ Len(norm[k]) >= 2 => ~BlankRun(norm[k][2])
          /\ Len(norm[k]) >= 3 => norm[k][3] = norm[k][2]
    /\ \A j, k \in 1..Len(norm) :
          (/\ Len(norm[j]) >= 2 /\ Len(norm[k]) >= 2
           /\ SelectSeq(norm[j][1], NotMark) = SelectSeq(norm[k][1], NotMark))
              => norm[j][2] = norm[k][2]

=============================================================================
